---------------------------- MODULE Spec2Model ----------------------------
(***************************************************************************)
(* Model of app/src/main/cpp/whisper_jni.cpp: the JNI binding that holds   *)
(* one whisper context (g_whisper), its atomic flag                        *)
(* (g_whisper_initialized) and the mutex (g_whisper_mutex), called from    *)
(* several Java threads.  Every statement of the six entry points that     *)
(* touches the shared state, the mutex or the engine is one step of the    *)
(* calling thread, so that the interleavings of the entry points are the   *)
(* interleavings of the model.                                             *)
(***************************************************************************)
EXTENDS Integers, Sequences, FiniteSets, TLC

(* ------------------------------ bounds --------------------------------- *)

\* Number of Java threads calling into the library.
NumThreads == 2

\* Largest number of segments of an engine result when the segment join is
\* explored on its own (SpecJoin).
MaxSegs == 3

\* Number of loadModel calls made in one behaviour (each may create a handle).
MaxLoads == 2

Threads == 1 .. NumThreads

\* Largest number of samples in an audio_data array.
MaxSamples == 1

\* Handles the engine can hand out; 0 is nullptr.
Handles == 1 .. MaxLoads

nullptr == 0

NoThread == 0

(* ------------------------------ strings -------------------------------- *)

\* std::string / C strings are sequences of one-character strings; a jstring
\* handed back to Java is the TLA+ string of the same characters.
RECURSIVE NewStringUTF(_)
NewStringUTF(s) == IF s = <<>> THEN "" ELSE Head(s) \o NewStringUTF(Tail(s))

\* The character set of find_first_not_of(" \t\n\r") / find_last_not_of.
TrimChars == {" ", "\t", "\n", "\r"}

\* The one-character set of find_first_not_of(" ").
SpaceChars == {" "}

\* std::string::npos
npos == 0

\* s.find_first_not_of(set): 1-based position of the first character not in
\* set, npos when there is none.
RECURSIVE find_first_not_of_from(_, _, _)
find_first_not_of_from(s, set, k) ==
    IF k > Len(s) THEN npos
    ELSE IF s[k] \notin set THEN k
    ELSE find_first_not_of_from(s, set, k + 1)

find_first_not_of(s, set) == find_first_not_of_from(s, set, 1)

\* s.find_last_not_of(set): 1-based position of the last character not in
\* set, npos when there is none.
RECURSIVE find_last_not_of_from(_, _, _)
find_last_not_of_from(s, set, k) ==
    IF k < 1 THEN npos
    ELSE IF s[k] \notin set THEN k
    ELSE find_last_not_of_from(s, set, k - 1)

find_last_not_of(s, set) == find_last_not_of_from(s, set, Len(s))

\* s.substr(start, count) with 1-based start.
substr(s, start, count) == SubSeq(s, start, start + count - 1)

BLANK_AUDIO == <<"[", "B", "L", "A", "N", "K", "_", "A", "U", "D", "I", "O", "]">>

\* What whisper_full_get_segment_text returns for a segment without text.
NullText == <<"nullptr">>


\* AppendSegmentFiltered that joins without the separating space.
AppendSegmentFiltered_nospace(transcription, text) ==
    IF text = NullText THEN transcription
    ELSE LET start == find_first_not_of(text, TrimChars) IN
         IF start = npos THEN transcription
         ELSE LET end == find_last_not_of(text, TrimChars)
                  segment_text == substr(text, start, end - start + 1)
              IN IF /\ segment_text # <<>>
                    /\ segment_text # BLANK_AUDIO
                    /\ find_first_not_of(segment_text, SpaceChars) # npos
                 THEN transcription \o segment_text
                 ELSE transcription

\* One iteration of the segment loop of transcribe / transcribeWithPrompt:
\* trim, drop what is empty, the blank marker or only spaces, join by " ".
AppendSegmentFiltered(transcription, text) ==
    IF text = NullText THEN transcription
    ELSE LET start == find_first_not_of(text, TrimChars) IN
         IF start = npos THEN transcription
         ELSE LET end == find_last_not_of(text, TrimChars)
                  segment_text == substr(text, start, end - start + 1)
              IN IF /\ segment_text # <<>>
                    /\ segment_text # BLANK_AUDIO
                    /\ find_first_not_of(segment_text, SpaceChars) # npos
                 THEN (IF transcription # <<>> THEN transcription \o <<" ">>
                                               ELSE transcription)
                      \o segment_text
                 ELSE transcription

\* One iteration of the segment loop of transcribeRealtime: trim, drop what is
\* empty, join by " ".
AppendSegmentRealtime(transcription, text) ==
    IF text = NullText THEN transcription
    ELSE LET start == find_first_not_of(text, TrimChars) IN
         IF start = npos THEN transcription
         ELSE LET end == find_last_not_of(text, TrimChars)
                  segment_text == substr(text, start, end - start + 1)
              IN IF segment_text # <<>>
                 THEN (IF transcription # <<>> THEN transcription \o <<" ">>
                                               ELSE transcription)
                      \o segment_text
                 ELSE transcription

\* TooShort that suppresses the empty result only.
TooShort_emptyonly(transcription) == transcription = <<>>

\* transcription.empty() || transcription.length() < 2, the test that makes
\* transcribe / transcribeWithPrompt return "".
TooShort(transcription) == transcription = <<>> \/ Len(transcription) < 2

(* ------------------------------ the engine ----------------------------- *)

s_hello == <<" ", "h", "e", "l", "l", "o", " ">>
s_world == <<"w", "o", "r", "l", "d", " ", " ">>
s_a     == <<"\t", "a", "\n">>
s_blank == <<" ">> \o BLANK_AUDIO
s_ws    == <<" ", "\r", " ">>

\* Results whisper_full can leave in a context: ordered segment texts.
EngineOutputs ==
    { <<s_hello, <<>>, BLANK_AUDIO, s_world>>,
      <<s_a>>,
      <<s_blank, s_ws>>,
      <<>> }

(* ------------------------------ entry points --------------------------- *)

Ops == {"loadModel", "transcribe", "transcribeWithPrompt",
        "transcribeRealtime", "releaseModel", "isModelLoaded"}

TranscribeOps == {"transcribe", "transcribeWithPrompt", "transcribeRealtime"}

NotLoadedMsg == "ERROR: Model not loaded"

BecameInvalidMsg == "ERROR: Model became invalid"

\* What an entry point hands back to Java, and the return statement (at) that
\* produced it.
NoRet == [kind |-> "none", b |-> FALSE, s |-> "", at |-> "none"]

Void(at) == [kind |-> "void", b |-> FALSE, s |-> "", at |-> at]

JBool(v, at) == [kind |-> "jboolean", b |-> v, s |-> "", at |-> at]

JString(v, at) == [kind |-> "jstring", b |-> FALSE, s |-> v, at |-> at]

\* Prompt arguments of transcribeWithPrompt: a null jstring, "", or a text.
Prompts == {"null", "empty", "text"}

\* whisper_full_default_params(WHISPER_SAMPLING_GREEDY): the fields the entry
\* points assign, with the values whisper.cpp gives them (floats by their
\* literals; initial_prompt is a C string or "null").
whisper_full_default_params ==
    [print_realtime |-> FALSE, print_progress |-> TRUE,
     print_timestamps |-> TRUE, print_special |-> FALSE,
     translate |-> FALSE, language |-> "en", n_threads |-> 4,
     offset_ms |-> 0, duration_ms |-> 0,
     n_max_text_ctx |-> 16384, suppress_blank |-> TRUE, suppress_nst |-> FALSE,
     temperature |-> "0.0f", temperature_inc |-> "0.2f",
     no_speech_thold |-> "0.6f", logprob_thold |-> "-1.0f",
     entropy_thold |-> "2.4f",
     beam_size |-> -1, best_of |-> 5,
     audio_ctx |-> 0, token_timestamps |-> FALSE, split_on_word |-> FALSE,
     initial_prompt |-> "null"]

\* line 104-132: the wparams of transcribe.
transcribe_wparams ==
    [whisper_full_default_params EXCEPT
        !.print_realtime = FALSE, !.print_progress = FALSE,
        !.print_timestamps = FALSE, !.print_special = FALSE,
        !.translate = FALSE, !.language = "en", !.n_threads = 4,
        !.offset_ms = 0, !.duration_ms = 0,
        !.n_max_text_ctx = 128, !.suppress_blank = TRUE, !.suppress_nst = TRUE,
        !.temperature = "0.0f", !.temperature_inc = "0.0f",
        !.no_speech_thold = "0.4f", !.logprob_thold = "-1.5f",
        !.entropy_thold = "3.0f",
        !.beam_size = 1, !.best_of = 1,
        !.audio_ctx = 0, !.token_timestamps = FALSE, !.split_on_word = TRUE]

\* line 229-260: the wparams of transcribeWithPrompt; initial_prompt is set
\* when prompt_str is neither null nor "".
transcribeWithPrompt_wparams(prompt_str) ==
    [whisper_full_default_params EXCEPT
        !.print_realtime = FALSE, !.print_progress = FALSE,
        !.print_timestamps = FALSE, !.print_special = FALSE,
        !.translate = FALSE, !.language = "en", !.n_threads = 4,
        !.n_max_text_ctx = 256, !.suppress_blank = TRUE, !.suppress_nst = TRUE,
        !.temperature = "0.0f", !.temperature_inc = "0.0f",
        !.no_speech_thold = "0.4f", !.logprob_thold = "-1.2f",
        !.entropy_thold = "3.0f",
        !.beam_size = 1, !.best_of = 1,
        !.audio_ctx = 0, !.token_timestamps = FALSE, !.split_on_word = TRUE,
        !.initial_prompt = IF prompt_str \notin {"null", "empty"}
                           THEN prompt_str ELSE @]

\* line 349-372: the wparams of transcribeRealtime.
transcribeRealtime_wparams ==
    [whisper_full_default_params EXCEPT
        !.print_realtime = FALSE, !.print_progress = FALSE,
        !.print_timestamps = FALSE, !.print_special = FALSE,
        !.translate = FALSE, !.language = "en", !.n_threads = 4,
        !.n_max_text_ctx = 64, !.suppress_blank = TRUE, !.suppress_nst = TRUE,
        !.temperature = "0.0f",
        !.no_speech_thold = "0.3f", !.logprob_thold = "-2.0f",
        !.entropy_thold = "3.5f",
        !.beam_size = 1, !.best_of = 1,
        !.audio_ctx = 256, !.token_timestamps = FALSE]

\* The wparams entry point o hands to whisper_full.
wparams_of(o, prompt_str) ==
    CASE o = "transcribe" -> transcribe_wparams
      [] o = "transcribeWithPrompt" -> transcribeWithPrompt_wparams(prompt_str)
      [] OTHER -> transcribeRealtime_wparams

VARIABLES
    g_whisper,              \* the context pointer: nullptr or a handle
    g_whisper_initialized,  \* the atomic flag
    g_whisper_mutex,        \* the thread holding the mutex, or NoThread
    live,                   \* handles created by the engine and not yet freed
    created,                \* number of handles the engine has created
    loads,                  \* number of loadModel calls made
    ctx,                    \* ctx[h]: the segments the last whisper_full left in h
    pc,                     \* pc[t]: where thread t is
    op,                     \* op[t]: the entry point thread t is in
    ret,                    \* ret[t]: the value thread t is returning
    loc,                    \* loc[t]: the locals of the entry point
    obs,                    \* obs[t]: what happened around thread t's call
    committed               \* was the session loaded when the mutex was last free

vars == <<g_whisper, g_whisper_initialized, g_whisper_mutex, live, created,
          loads, ctx, pc, op, ret, loc, obs, committed>>

shared == <<g_whisper, g_whisper_initialized, live, created, ctx>>

\* Locals of a call: path (loadModel: what model_path turns out to be),
\* length (-1 before GetArrayLength), prompt (the argument), prompt_str,
\* wparams, n_segments, i, transcription (the transcribe entry points), and
\* segments: the result the call's own whisper_full produced.
NoLoc == [path |-> "none", length |-> -1, prompt |-> "null",
          prompt_str |-> "null", wparams |-> whisper_full_default_params,
          segments |-> <<>>, n_segments |-> 0, i |-> 0,
          transcription |-> <<>>]

\* model_path arguments: a string the JVM cannot hand out, a file the engine
\* rejects, a model file.
Paths == {"nochars", "badfile", "model"}

\* What is recorded about a call while it runs:
\*   racy    - another thread wrote g_whisper after this call read the flag
\*             in its pre-lock check and before it read the pointer;
\*   entered - a loadModel / releaseModel acquired the mutex after this call's
\*             pre-lock check and before its post-lock re-check;
\*   unl     - at some moment of the call the session was unloaded in the
\*             order of the critical sections, or a releaseModel or a
\*             loadModel of a rejected file was under way.
\*   fresh   - the call began on an unloaded session with no loadModel under
\*             way, and no loadModel has been called since;
\*   steady  - the call began on a loaded session with no loadModel or
\*             releaseModel under way, and none has been called since.
NoObs == [racy |-> FALSE, entered |-> FALSE, unl |-> FALSE, fresh |-> FALSE,
          steady |-> FALSE]


Init ==
    /\ g_whisper = nullptr
    /\ g_whisper_initialized = FALSE
    /\ g_whisper_mutex = NoThread
    /\ live = {}
    /\ created = 0
    /\ loads = 0
    /\ ctx = [h \in Handles |-> <<>>]
    /\ pc = [t \in Threads |-> "idle"]
    /\ op = [t \in Threads |-> "none"]
    /\ ret = [t \in Threads |-> NoRet]
    /\ loc = [t \in Threads |-> NoLoc]
    /\ obs = [t \in Threads |-> NoObs]
    /\ committed = FALSE

(* ------------------------------ helpers -------------------------------- *)

\* std::lock_guard<std::mutex> lock(g_whisper_mutex): blocks until free.
CanLock == g_whisper_mutex = NoThread

\* The condition of the two checks: !g_whisper_initialized || g_whisper == nullptr.
NotLoaded == ~g_whisper_initialized \/ g_whisper = nullptr

\* A call that unloads the session is under way in thread u.
Unloading(u) ==
    \/ op[u] = "releaseModel"
    \/ op[u] = "loadModel" /\ loc[u].path = "badfile"

\* Thread t moves to label l.
Goto(t, l) == pc' = [pc EXCEPT ![t] = l]

\* Thread t has its return value v; what is left is the lock_guard's destructor.
Returning(t, v) ==
    /\ pc' = [pc EXCEPT ![t] = "ret"]
    /\ ret' = [ret EXCEPT ![t] = v]

\* obs after thread t wrote g_whisper: the calls that are between the two reads
\* of their pre-lock check have raced with the write.
AfterWrite(t) ==
    [u \in Threads |->
        IF u # t /\ pc[u] = "check_ptr" THEN [obs[u] EXCEPT !.racy = TRUE]
        ELSE obs[u]]

\* obs after thread t, in loadModel or releaseModel, acquired the mutex.
AfterEnter(t) ==
    [u \in Threads |->
        IF u # t /\ pc[u] \in {"get_length", "get_elements", "get_prompt", "lock"}
        THEN [obs[u] EXCEPT !.entered = TRUE]
        ELSE obs[u]]

(* ------------------------------ calling -------------------------------- *)

\* A Java thread calls an entry point.
Call(t, o, path) ==
    /\ pc[t] = "idle"
    /\ o = "loadModel" => loads < MaxLoads
    /\ o # "loadModel" => path = "none"
    /\ o = "loadModel" => path # "none"
    /\ op' = [op EXCEPT ![t] = o]
    /\ loc' = [loc EXCEPT ![t] = [NoLoc EXCEPT !.path = path]]
    /\ loads' = IF o = "loadModel" THEN loads + 1 ELSE loads
    /\ pc' = [pc EXCEPT ![t] =
                CASE o = "loadModel" -> "load_path"
                  [] o = "releaseModel" -> "rel_lock"
                  [] o = "isModelLoaded" -> "is_lock"
                  [] OTHER -> "check_flag"]
    /\ obs' = [u \in Threads |->
                IF u = t
                THEN [NoObs EXCEPT
                        !.unl = \/ ~committed
                                \/ \E w \in Threads \ {t} : Unloading(w),
                        !.fresh = /\ g_whisper = nullptr
                                  /\ ~g_whisper_initialized
                                  /\ o # "loadModel"
                                  /\ \A w \in Threads : op[w] # "loadModel",
                        !.steady = /\ g_whisper # nullptr
                                   /\ g_whisper_initialized
                                   /\ o \notin {"loadModel", "releaseModel"}
                                   /\ \A w \in Threads :
                                         op[w] \notin {"loadModel", "releaseModel"}]
                ELSE [obs[u] EXCEPT
                        !.unl = @ \/ (op[u] # "none" /\ (o = "releaseModel" \/ path = "badfile")),
                        !.fresh = @ /\ o # "loadModel",
                        !.steady = @ /\ o \notin {"loadModel", "releaseModel"}]]
    /\ UNCHANGED <<shared, g_whisper_mutex, ret, committed>>

\* Return that leaves the mutex locked.
Return_nounlock(t) ==
    /\ pc[t] = "ret"
    /\ pc' = [pc EXCEPT ![t] = "idle"]
    /\ op' = [op EXCEPT ![t] = "none"]
    /\ ret' = [ret EXCEPT ![t] = NoRet]
    /\ loc' = [loc EXCEPT ![t] = NoLoc]
    /\ obs' = [obs EXCEPT ![t] = NoObs]
    /\ UNCHANGED <<shared, loads, g_whisper_mutex, committed>>

\* The entry point returns: the lock_guard (if the call has one) unlocks.
Return(t) ==
    /\ pc[t] = "ret"
    /\ g_whisper_mutex' = IF g_whisper_mutex = t THEN NoThread ELSE g_whisper_mutex
    /\ committed' = IF g_whisper_mutex = t
                    THEN (g_whisper # nullptr /\ g_whisper_initialized)
                    ELSE committed
    /\ pc' = [pc EXCEPT ![t] = "idle"]
    /\ op' = [op EXCEPT ![t] = "none"]
    /\ ret' = [ret EXCEPT ![t] = NoRet]
    /\ loc' = [loc EXCEPT ![t] = NoLoc]
    /\ obs' = [u \in Threads |->
                IF u = t THEN NoObs
                ELSE IF g_whisper_mutex = t /\ op[u] # "none"
                        /\ ~(g_whisper # nullptr /\ g_whisper_initialized)
                     THEN [obs[u] EXCEPT !.unl = TRUE]
                     ELSE obs[u]]
    /\ UNCHANGED <<shared, loads>>


(* ------------------------------ loadModel ------------------------------ *)

\* loadModel_path that goes on to the lock without a path string.
loadModel_path_ignored(t) ==
    /\ pc[t] = "load_path"
    /\ Goto(t, "load_lock")
    /\ UNCHANGED <<shared, g_whisper_mutex, loads, op, ret, loc, obs, committed>>

\* line 24-28: GetStringUTFChars(model_path); no string, return JNI_FALSE.
loadModel_path(t) ==
    /\ pc[t] = "load_path"
    /\ IF loc[t].path = "nochars"
       THEN Returning(t, JBool(FALSE, "nochars"))
       ELSE Goto(t, "load_lock") /\ UNCHANGED ret
    /\ UNCHANGED <<shared, g_whisper_mutex, loads, op, loc, obs, committed>>

\* line 32: lock_guard.
loadModel_lock(t) ==
    /\ pc[t] = "load_lock"
    /\ CanLock
    /\ g_whisper_mutex' = t
    /\ obs' = AfterEnter(t)
    /\ Goto(t, "load_test")
    /\ UNCHANGED <<shared, loads, op, ret, loc, committed>>

\* loadModel_test that never releases the model it finds.
loadModel_test_norelease(t) ==
    /\ pc[t] = "load_test"
    /\ Goto(t, "load_init")
    /\ UNCHANGED <<shared, g_whisper_mutex, loads, op, ret, loc, obs, committed>>

\* line 35: if (g_whisper != nullptr).
loadModel_test(t) ==
    /\ pc[t] = "load_test"
    /\ Goto(t, IF g_whisper # nullptr THEN "load_free" ELSE "load_init")
    /\ UNCHANGED <<shared, g_whisper_mutex, loads, op, ret, loc, obs, committed>>

\* line 36: whisper_free(g_whisper).
loadModel_free(t) ==
    /\ pc[t] = "load_free"
    /\ live' = live \ {g_whisper}
    /\ ctx' = [ctx EXCEPT ![g_whisper] = <<>>]
    /\ Goto(t, "load_null")
    /\ UNCHANGED <<g_whisper, g_whisper_initialized, created, g_whisper_mutex,
                   loads, op, ret, loc, obs, committed>>

\* line 37: g_whisper = nullptr.
loadModel_null(t) ==
    /\ pc[t] = "load_null"
    /\ g_whisper' = nullptr
    /\ obs' = AfterWrite(t)
    /\ Goto(t, "load_clear")
    /\ UNCHANGED <<g_whisper_initialized, live, created, ctx, g_whisper_mutex,
                   loads, op, ret, loc, committed>>

\* loadModel_clear that leaves the flag set.
loadModel_clear_forgotten(t) ==
    /\ pc[t] = "load_clear"
    /\ Goto(t, "load_init")
    /\ UNCHANGED <<shared, g_whisper_mutex, loads, op, ret, loc, obs, committed>>

\* line 38: g_whisper_initialized = false.
loadModel_clear(t) ==
    /\ pc[t] = "load_clear"
    /\ g_whisper_initialized' = FALSE
    /\ Goto(t, "load_init")
    /\ UNCHANGED <<g_whisper, live, created, ctx, g_whisper_mutex,
                   loads, op, ret, loc, obs, committed>>

\* line 45: g_whisper = whisper_init_from_file_with_params(path, cparams):
\* a new context for a model file, nullptr for a file the engine rejects.
loadModel_init(t) ==
    /\ pc[t] = "load_init"
    /\ IF loc[t].path = "model"
       THEN /\ created' = created + 1
            /\ g_whisper' = created + 1
            /\ live' = live \cup {created + 1}
       ELSE /\ g_whisper' = nullptr
            /\ UNCHANGED <<created, live>>
    /\ obs' = AfterWrite(t)
    /\ Goto(t, "load_check")
    /\ UNCHANGED <<g_whisper_initialized, ctx, g_whisper_mutex,
                   loads, op, ret, loc, committed>>

\* line 49-52: if (g_whisper == nullptr) return JNI_FALSE.
loadModel_check(t) ==
    /\ pc[t] = "load_check"
    /\ IF g_whisper = nullptr
       THEN Returning(t, JBool(FALSE, "failed"))
       ELSE Goto(t, "load_set") /\ UNCHANGED ret
    /\ UNCHANGED <<shared, g_whisper_mutex, loads, op, loc, obs, committed>>

\* loadModel_set that returns JNI_TRUE without setting the flag.
loadModel_set_forgotten(t) ==
    /\ pc[t] = "load_set"
    /\ Returning(t, JBool(TRUE, "loaded"))
    /\ UNCHANGED <<shared, g_whisper_mutex, loads, op, loc, obs, committed>>

\* line 54-56: g_whisper_initialized = true; return JNI_TRUE.
loadModel_set(t) ==
    /\ pc[t] = "load_set"
    /\ g_whisper_initialized' = TRUE
    /\ Returning(t, JBool(TRUE, "loaded"))
    /\ UNCHANGED <<g_whisper, live, created, ctx, g_whisper_mutex,
                   loads, op, loc, obs, committed>>

loadModel(t) ==
    \/ loadModel_path(t)
    \/ loadModel_lock(t)
    \/ loadModel_test(t)
    \/ loadModel_free(t)
    \/ loadModel_null(t)
    \/ loadModel_clear(t)
    \/ loadModel_init(t)
    \/ loadModel_check(t)
    \/ loadModel_set(t)

(* ------------------------------ releaseModel --------------------------- *)

\* releaseModel_lock without waiting for the mutex.
releaseModel_lock_nowait(t) ==
    /\ pc[t] = "rel_lock"
    /\ g_whisper_mutex' = t
    /\ obs' = AfterEnter(t)
    /\ Goto(t, "rel_test")
    /\ UNCHANGED <<shared, loads, op, ret, loc, committed>>

\* line 412: lock_guard.
releaseModel_lock(t) ==
    /\ pc[t] = "rel_lock"
    /\ CanLock
    /\ g_whisper_mutex' = t
    /\ obs' = AfterEnter(t)
    /\ Goto(t, "rel_test")
    /\ UNCHANGED <<shared, loads, op, ret, loc, committed>>

\* line 414: if (g_whisper != nullptr); nothing to do otherwise.
releaseModel_test(t) ==
    /\ pc[t] = "rel_test"
    /\ IF g_whisper # nullptr
       THEN Goto(t, "rel_free") /\ UNCHANGED ret
       ELSE Returning(t, Void("noop"))
    /\ UNCHANGED <<shared, g_whisper_mutex, loads, op, loc, obs, committed>>

\* line 415: whisper_free(g_whisper).
releaseModel_free(t) ==
    /\ pc[t] = "rel_free"
    /\ live' = live \ {g_whisper}
    /\ ctx' = [ctx EXCEPT ![g_whisper] = <<>>]
    /\ Goto(t, "rel_null")
    /\ UNCHANGED <<g_whisper, g_whisper_initialized, created, g_whisper_mutex,
                   loads, op, ret, loc, obs, committed>>

\* line 416: g_whisper = nullptr.
releaseModel_null(t) ==
    /\ pc[t] = "rel_null"
    /\ g_whisper' = nullptr
    /\ obs' = AfterWrite(t)
    /\ Goto(t, "rel_clear")
    /\ UNCHANGED <<g_whisper_initialized, live, created, ctx, g_whisper_mutex,
                   loads, op, ret, loc, committed>>
\* releaseModel_clear that leaves the flag set.
releaseModel_clear_forgotten(t) ==
    /\ pc[t] = "rel_clear"
    /\ Returning(t, Void("released"))
    /\ UNCHANGED <<shared, g_whisper_mutex, loads, op, loc, obs, committed>>

\* line 417: g_whisper_initialized = false.
releaseModel_clear(t) ==
    /\ pc[t] = "rel_clear"
    /\ g_whisper_initialized' = FALSE
    /\ Returning(t, Void("released"))
    /\ UNCHANGED <<g_whisper, live, created, ctx, g_whisper_mutex,
                   loads, op, loc, obs, committed>>

releaseModel(t) ==
    \/ releaseModel_lock(t)
    \/ releaseModel_test(t)
    \/ releaseModel_free(t)
    \/ releaseModel_null(t)
    \/ releaseModel_clear(t)

(* ------------------------------ isModelLoaded -------------------------- *)

\* line 426: lock_guard.
isModelLoaded_lock(t) ==
    /\ pc[t] = "is_lock"
    /\ CanLock
    /\ g_whisper_mutex' = t
    /\ Goto(t, "is_read")
    /\ UNCHANGED <<shared, loads, op, ret, loc, obs, committed>>

\* line 427: return (g_whisper != nullptr && g_whisper_initialized).
isModelLoaded_read(t) ==
    /\ pc[t] = "is_read"
    /\ Returning(t, JBool(g_whisper # nullptr /\ g_whisper_initialized, "read"))
    /\ UNCHANGED <<shared, g_whisper_mutex, loads, op, loc, obs, committed>>

isModelLoaded(t) ==
    \/ isModelLoaded_lock(t)
    \/ isModelLoaded_read(t)


(* ------------- transcribe, transcribeWithPrompt, transcribeRealtime ---- *)

\* The unlocked read of g_whisper in the pre-lock check races with a write of
\* another thread that is not ordered before it: one made since this thread
\* read the flag, or one made in a critical section that has not cleared or
\* set the flag yet.  (A write still to come is the same race; the
\* interleaving in which the writer steps first covers it.)
Racing(t) ==
    \/ obs[t].racy
    \/ \E u \in Threads \ {t} : pc[u] \in {"load_clear", "rel_clear"}

\* transcribe_check_flag that does not look at the flag.
transcribe_check_flag_skipped(t) ==
    /\ pc[t] = "check_flag"
    /\ Goto(t, "get_length")
    /\ UNCHANGED <<shared, g_whisper_mutex, loads, op, ret, loc, obs, committed>>

\* line 63 / 181 / 312, first operand: !g_whisper_initialized (an atomic load).
transcribe_check_flag(t) ==
    /\ pc[t] = "check_flag"
    /\ IF ~g_whisper_initialized
       THEN Returning(t, JString(NotLoadedMsg, "precheck"))
       ELSE Goto(t, "check_ptr") /\ UNCHANGED ret
    /\ UNCHANGED <<shared, g_whisper_mutex, loads, op, loc, obs, committed>>

\* line 63 / 181 / 312, second operand: g_whisper == nullptr, read without the
\* mutex; a racing read yields either outcome.
transcribe_check_ptr(t) ==
    /\ pc[t] = "check_ptr"
    /\ \E isnull \in (IF Racing(t) THEN BOOLEAN ELSE {g_whisper = nullptr}) :
          IF isnull
          THEN Returning(t, JString(NotLoadedMsg, "precheck"))
          ELSE Goto(t, "get_length") /\ UNCHANGED ret
    /\ obs' = [obs EXCEPT ![t].racy = FALSE]
    /\ UNCHANGED <<shared, g_whisper_mutex, loads, op, loc, committed>>

\* transcribe_get_length that goes on whatever the length.
transcribe_get_length_unchecked(t) ==
    /\ pc[t] = "get_length"
    /\ \E length \in 0 .. MaxSamples :
          loc' = [loc EXCEPT ![t].length = length]
    /\ Goto(t, "get_elements")
    /\ UNCHANGED <<shared, g_whisper_mutex, loads, op, ret, obs, committed>>

\* line 69-73 / 187-191 / 318-322: GetArrayLength; length <= 0 returns "".
transcribe_get_length(t) ==
    /\ pc[t] = "get_length"
    /\ \E length \in 0 .. MaxSamples :
          /\ loc' = [loc EXCEPT ![t].length = length]
          /\ IF length <= 0
             THEN Returning(t, JString("", "length"))
             ELSE Goto(t, "get_elements") /\ UNCHANGED ret
    /\ UNCHANGED <<shared, g_whisper_mutex, loads, op, obs, committed>>

\* line 75-92 / 193-208 / 324-339: GetFloatArrayElements and the copy into
\* audio_buffer; no elements, or a copy that throws, returns "".
transcribe_get_elements(t) ==
    /\ pc[t] = "get_elements"
    /\ \E outcome \in {"null", "throws", "copied"} :
          IF outcome = "copied"
          THEN Goto(t, IF op[t] = "transcribeWithPrompt" THEN "get_prompt" ELSE "lock")
               /\ UNCHANGED ret
          ELSE Returning(t, JString("", "elements"))
    /\ UNCHANGED <<shared, g_whisper_mutex, loads, op, loc, obs, committed>>

\* line 211-214: prompt_str = GetStringUTFChars(prompt) unless prompt is null;
\* the JVM may fail to hand out the characters.
transcribe_get_prompt(t) ==
    /\ pc[t] = "get_prompt"
    /\ \E prompt \in Prompts, chars \in BOOLEAN :
          loc' = [loc EXCEPT ![t].prompt = prompt,
                             ![t].prompt_str = IF prompt # "null" /\ chars
                                               THEN prompt ELSE "null"]
    /\ Goto(t, "lock")
    /\ UNCHANGED <<shared, g_whisper_mutex, loads, op, ret, obs, committed>>

\* transcribe_lock without waiting for the mutex.
transcribe_lock_nowait(t) ==
    /\ pc[t] = "lock"
    /\ g_whisper_mutex' = t
    /\ Goto(t, "recheck")
    /\ UNCHANGED <<shared, loads, op, ret, loc, obs, committed>>

\* line 96 / 220 / 341: lock_guard.
transcribe_lock(t) ==
    /\ pc[t] = "lock"
    /\ CanLock
    /\ g_whisper_mutex' = t
    /\ Goto(t, "recheck")
    /\ UNCHANGED <<shared, loads, op, ret, loc, obs, committed>>

\* transcribe_recheck without the re-check: the call goes on to whisper_full
\* whatever the state after the lock.
transcribe_recheck_unchecked(t) ==
    /\ pc[t] = "recheck"
    /\ Goto(t, "full")
    /\ UNCHANGED <<shared, g_whisper_mutex, loads, op, ret, loc, obs, committed>>

\* line 98-101 / 222-226 / 343-346: the re-check under the mutex.
transcribe_recheck(t) ==
    /\ pc[t] = "recheck"
    /\ IF NotLoaded
       THEN Returning(t, JString(BecameInvalidMsg, "recheck"))
       ELSE Goto(t, "full") /\ UNCHANGED ret
    /\ UNCHANGED <<shared, g_whisper_mutex, loads, op, loc, obs, committed>>
\* transcribe_full that gives the session up when the engine fails.
transcribe_full_invalidates(t) ==
    /\ pc[t] = "full"
    /\ LET wparams == wparams_of(op[t], loc[t].prompt_str) IN
       \/ /\ Returning(t, JString("", "status"))
          /\ g_whisper_initialized' = FALSE
          /\ loc' = [loc EXCEPT ![t].wparams = wparams]
          /\ UNCHANGED ctx
       \/ /\ \E segments \in EngineOutputs :
                /\ ctx' = [ctx EXCEPT ![g_whisper] = segments]
                /\ loc' = [loc EXCEPT ![t].wparams = wparams,
                                      ![t].segments = segments]
          /\ Goto(t, "n_segments")
          /\ UNCHANGED <<ret, g_whisper_initialized>>
    /\ UNCHANGED <<g_whisper, live, created,
                   g_whisper_mutex, loads, op, obs, committed>>

\* line 104-140 / 229-272 / 349-380: wparams is filled in and
\* whisper_full(g_whisper, wparams, ...) is called; a non-zero status returns
\* "", success leaves the segments in the context.
transcribe_full(t) ==
    /\ pc[t] = "full"
    /\ LET wparams == wparams_of(op[t], loc[t].prompt_str) IN
       \/ /\ Returning(t, JString("", "status"))
          /\ loc' = [loc EXCEPT ![t].wparams = wparams]
          /\ UNCHANGED ctx
       \/ /\ \E segments \in EngineOutputs :
                /\ ctx' = [ctx EXCEPT ![g_whisper] = segments]
                /\ loc' = [loc EXCEPT ![t].wparams = wparams,
                                      ![t].segments = segments]
          /\ Goto(t, "n_segments")
          /\ UNCHANGED ret
    /\ UNCHANGED <<g_whisper, g_whisper_initialized, live, created,
                   g_whisper_mutex, loads, op, obs, committed>>

\* line 143-144 / 275-276 / 383-384: n_segments = whisper_full_n_segments(g_whisper).
transcribe_n_segments(t) ==
    /\ pc[t] = "n_segments"
    /\ loc' = [loc EXCEPT ![t].n_segments = Len(ctx[g_whisper]),
                          ![t].i = 0,
                          ![t].transcription = <<>>]
    /\ Goto(t, "segment")
    /\ UNCHANGED <<shared, g_whisper_mutex, loads, op, ret, obs, committed>>

\* line 146-166 / 278-298 / 386-403: one iteration of the segment loop.
transcribe_segment(t) ==
    /\ pc[t] = "segment"
    /\ loc[t].i < loc[t].n_segments
    /\ LET text == ctx[g_whisper][loc[t].i + 1] IN
       loc' = [loc EXCEPT
                 ![t].transcription =
                     IF op[t] = "transcribeRealtime"
                     THEN AppendSegmentRealtime(loc[t].transcription, text)
                     ELSE AppendSegmentFiltered(loc[t].transcription, text),
                 ![t].i = loc[t].i + 1]
    /\ UNCHANGED <<shared, g_whisper_mutex, loads, pc, op, ret, obs, committed>>

\* line 168-174 / 300-306 / 405: the loop is over; the result goes to Java.
transcribe_finish(t) ==
    /\ pc[t] = "segment"
    /\ loc[t].i >= loc[t].n_segments
    /\ IF op[t] # "transcribeRealtime" /\ TooShort(loc[t].transcription)
       THEN Returning(t, JString("", "short"))
       ELSE Returning(t, JString(NewStringUTF(loc[t].transcription), "text"))
    /\ UNCHANGED <<shared, g_whisper_mutex, loads, op, loc, obs, committed>>

transcribe(t) ==
    \/ transcribe_check_flag(t)
    \/ transcribe_check_ptr(t)
    \/ transcribe_get_length(t)
    \/ transcribe_get_elements(t)
    \/ transcribe_get_prompt(t)
    \/ transcribe_lock(t)
    \/ transcribe_recheck(t)
    \/ transcribe_full(t)
    \/ transcribe_n_segments(t)
    \/ transcribe_segment(t)
    \/ transcribe_finish(t)

(* ------------------------------ the program ---------------------------- *)

Next ==
    \E t \in Threads :
        \/ \E o \in Ops, path \in Paths \cup {"none"} : Call(t, o, path)
        \/ loadModel(t)
        \/ transcribe(t)
        \/ releaseModel(t)
        \/ isModelLoaded(t)
        \/ Return(t)

Spec == Init /\ [][Next]_vars

TypeOK ==
    /\ g_whisper \in {nullptr} \cup Handles
    /\ g_whisper_initialized \in BOOLEAN
    /\ g_whisper_mutex \in {NoThread} \cup Threads
    /\ live \subseteq Handles
    /\ created \in 0 .. MaxLoads
    /\ loads \in 0 .. MaxLoads
    /\ op \in [Threads -> Ops \cup {"none"}]
    /\ committed \in BOOLEAN


(* ------------------------------ properties ----------------------------- *)

\* The labels at which a transcribe call hands g_whisper to the engine:
\* whisper_full, whisper_full_n_segments, whisper_full_get_segment_text.
EngineCallPcs == {"full", "n_segments", "segment"}

Sentinels == {NotLoadedMsg, BecameInvalidMsg}

\* C1: whenever a transcribe call (any profile) is about to hand g_whisper to
\* whisper_full or to a segment accessor, g_whisper is a handle that was
\* created and not yet freed; and every transcribe call returns a string: a
\* sentinel from one of the two checks, or the string of a call that ran on.
C1_HandleLiveAtEngineCalls ==
    \A t \in Threads :
        /\ (op[t] \in TranscribeOps /\ pc[t] \in EngineCallPcs)
              => (g_whisper # nullptr /\ g_whisper \in live)
        /\ (op[t] \in TranscribeOps /\ pc[t] = "ret")
              => /\ ret[t].kind = "jstring"
                 /\ ret[t].at \in {"precheck", "recheck"} <=> ret[t].s \in Sentinels

\* C1 witness: a transcribe is at whisper_full while a releaseModel, called
\* meanwhile, waits for the mutex.
C1_Witness ==
    \E t, u \in Threads :
        /\ op[t] \in TranscribeOps /\ pc[t] = "full"
        /\ op[u] = "releaseModel" /\ pc[u] = "rel_lock"

\* The part of a transcribe call from its post-lock re-check to its return value.
InInference(t) ==
    /\ op[t] \in TranscribeOps
    /\ pc[t] \in {"recheck", "full", "n_segments", "segment"}

\* C2: no two transcribe calls, of any profiles, are at the same time between
\* their post-lock re-check and their return.
C2_InferenceExclusive ==
    \A t, u \in Threads : (t # u) => ~(InInference(t) /\ InInference(u))

\* C2 witness: one transcribe is at whisper_full while another waits at the lock.
C2_Witness ==
    \E t, u \in Threads :
        /\ op[t] \in TranscribeOps /\ pc[t] = "full"
        /\ op[u] \in TranscribeOps /\ pc[u] = "lock"

\* C3 as stated: at the step in which a loadModel fixes its return value (no
\* other thread being in a call), true comes with a live handle and the flag
\* set, and false comes with handle null, flag clear and no handle live.
C3_LoadResultOriginal ==
    [][\A t \in Threads :
          (/\ op[t] = "loadModel" /\ pc[t] # "ret" /\ pc'[t] = "ret"
           /\ \A u \in Threads \ {t} : op[u] = "none") =>
              /\ ret'[t].b => (g_whisper' \in live' /\ g_whisper_initialized')
              /\ ~ret'[t].b => /\ g_whisper' = nullptr
                               /\ ~g_whisper_initialized'
                               /\ live' = {}]_vars

\* C3 amended: a loadModel that obtained the path string returns true iff the
\* engine returned a non-null handle, and then the handle is live and the flag
\* set; when it returns false the handle is null, the flag clear and no handle
\* is live (the one found by the call was freed).
C3_LoadResult ==
    \A t \in Threads :
        (op[t] = "loadModel" /\ pc[t] = "ret" /\ loc[t].path # "nochars") =>
            /\ g_whisper_mutex = t
            /\ ret[t].b <=> g_whisper # nullptr
            /\ ret[t].b <=> loc[t].path = "model"
            /\ ret[t].b => (live = {g_whisper} /\ g_whisper_initialized)
            /\ ~ret[t].b => /\ g_whisper = nullptr
                            /\ ~g_whisper_initialized
                            /\ live = {}

\* C3 witness: a loadModel of a file the engine rejects returns false after an
\* earlier load had created a handle.
C3_Witness ==
    \E t \in Threads :
        /\ op[t] = "loadModel" /\ pc[t] = "ret"
        /\ loc[t].path = "badfile"
        /\ ~ret[t].b
        /\ created >= 1

\* C4: at most one handle is live; a live handle is the current g_whisper;
\* loadModel asks the engine for a context only when none is live; and
\* whisper_free is only ever called on a live handle (no double free).
C4_OneHandle ==
    /\ Cardinality(live) <= 1
    /\ live \subseteq {g_whisper}
    /\ \A t \in Threads :
          /\ pc[t] = "load_init" => live = {}
          /\ pc[t] \in {"load_free", "rel_free"} => g_whisper \in live

\* C4 witness: a loadModel that found a handle has just freed it; nothing is
\* live when it goes on to ask the engine for a new one.
C4_Witness ==
    \E t \in Threads :
        /\ pc[t] = "load_null"
        /\ created >= 1
        /\ live = {}


\* C5 as stated, for the transcribe entry points: a call that returns one of
\* the two sentinels (the unloaded outcome) has a place in the order of the
\* critical sections at which the session is unloaded: at some moment of the
\* call the session was unloaded when the mutex was last free, or a
\* releaseModel or a loadModel of a rejected file was under way.
C5_SentinelHasSequentialPlace ==
    \A t \in Threads :
        (op[t] \in TranscribeOps /\ pc[t] = "ret" /\ ret[t].s \in Sentinels)
            => obs[t].unl

\* C6: a transcribe call (any profile) that began on an unloaded session (handle
\* null, flag clear) with no loadModel under way then or since never gets past
\* its pre-lock check, so it reaches no engine call, and what it returns is
\* exactly "ERROR: Model not loaded".
C6_UnloadedGuard ==
    \A t \in Threads :
        (op[t] \in TranscribeOps /\ obs[t].fresh) =>
            /\ pc[t] \in {"check_flag", "ret"}
            /\ pc[t] = "ret" => ret[t] = JString(NotLoadedMsg, "precheck")

\* C6 witness: a transcribeRealtime called after a releaseModel has unloaded a
\* session that had been loaded returns the sentinel.
C6_Witness ==
    \E t \in Threads :
        /\ op[t] = "transcribeRealtime" /\ obs[t].fresh
        /\ pc[t] = "ret" /\ ret[t].s = NotLoadedMsg
        /\ created >= 1

\* C7 as stated: a transcribe call returns "ERROR: Model became invalid"
\* exactly when it passed the pre-lock check and found the session not loaded
\* under the mutex, and then a loadModel or releaseModel acquired the mutex
\* between the two checks.
C7_BecameInvalidOriginal ==
    \A t \in Threads :
        (op[t] \in TranscribeOps /\ pc[t] = "ret") =>
            /\ ret[t].s = BecameInvalidMsg <=> (g_whisper_mutex = t /\ NotLoaded)
            /\ ret[t].s = BecameInvalidMsg => obs[t].entered

\* A step of thread t.
Stepped(t) == pc'[t] # pc[t] \/ loc'[t] # loc[t]

\* C8: no step of a transcribe call (any profile, any outcome) changes
\* g_whisper, g_whisper_initialized or the set of live handles; a call that
\* returns "" for a non-zero engine status still holds the mutex over a
\* loaded session.
C8_TranscribeFrame ==
    /\ [][\A t \in Threads :
            (op[t] \in TranscribeOps /\ Stepped(t)) =>
                UNCHANGED <<g_whisper, g_whisper_initialized, live>>]_vars
    /\ [](\A t \in Threads :
            (op[t] \in TranscribeOps /\ pc[t] = "ret" /\ ret[t].at = "status") =>
                (g_whisper_initialized /\ g_whisper \in live))

\* C8 witness: whisper_full returned a non-zero status; the call returns "" and
\* the session is still loaded.
C8_Witness ==
    \E t \in Threads :
        /\ op[t] \in TranscribeOps /\ pc[t] = "ret"
        /\ ret[t] = JString("", "status")
        /\ g_whisper_initialized /\ g_whisper \in live

\* C9: a releaseModel on an unloaded session (handle null, flag clear) changes
\* nothing of the session and frees nothing, and when any releaseModel has
\* its return value the session is unloaded: handle null, flag clear, no handle
\* live, which is the state a further releaseModel leaves as it is.
C9_ReleaseIdempotent ==
    /\ [][\A t \in Threads :
            (/\ op[t] = "releaseModel" /\ Stepped(t)
             /\ g_whisper = nullptr /\ ~g_whisper_initialized) =>
                UNCHANGED <<g_whisper, g_whisper_initialized, live, created, ctx>>]_vars
    /\ [](\A t \in Threads :
            (op[t] = "releaseModel" /\ pc[t] = "ret") =>
                /\ g_whisper = nullptr
                /\ ~g_whisper_initialized
                /\ live = {})

\* C9 witness: a releaseModel that found nothing to release, called after an
\* earlier releaseModel had unloaded a loaded session.
C9_Witness ==
    \E t \in Threads :
        /\ op[t] = "releaseModel" /\ pc[t] = "ret" /\ ret[t].at = "noop"
        /\ created >= 1
        /\ g_whisper = nullptr /\ ~g_whisper_initialized


(* ------------------- the segment join on its own (SpecJoin) ------------- *)

\* Segment texts for the join: empty, only whitespace, padded
\* on either side, with an inner space, the blank marker bare and padded, part
\* of the marker, and a segment without text.
SegTexts ==
    { <<>>, <<" ">>, <<"\t", "\n">>, <<"a">>, <<" ", "a", "\r">>,
      <<"b", " ", "c">>, BLANK_AUDIO, s_blank \o <<"\n">>, <<"[">>, NullText }

\* All engine results of at most n segments.
RECURSIVE SegListsUpTo(_)
SegListsUpTo(n) ==
    IF n = 0 THEN {<<>>}
    ELSE LET shorter == SegListsUpTo(n - 1) IN
         shorter \cup {Append(l, x) : l \in {m \in shorter : Len(m) = n - 1},
                                      x \in SegTexts}

SegLists == SegListsUpTo(MaxSegs) \cup EngineOutputs

\* A loaded session; thread 1, in one of the transcribe entry points, holds the
\* mutex and whisper_full has just left some engine result in the context.
JoinInit ==
    /\ g_whisper = 1
    /\ g_whisper_initialized = TRUE
    /\ g_whisper_mutex = 1
    /\ live = {1}
    /\ created = 1
    /\ loads = 1
    /\ \E segments \in SegLists, o \in TranscribeOps :
          /\ ctx = [h \in Handles |-> IF h = 1 THEN segments ELSE <<>>]
          /\ op = [t \in Threads |-> IF t = 1 THEN o ELSE "none"]
          /\ loc = [t \in Threads |->
                      IF t = 1
                      THEN [NoLoc EXCEPT !.length = MaxSamples,
                                         !.wparams = wparams_of(o, "null"),
                                         !.segments = segments]
                      ELSE NoLoc]
    /\ pc = [t \in Threads |-> IF t = 1 THEN "n_segments" ELSE "idle"]
    /\ ret = [t \in Threads |-> NoRet]
    /\ obs = [t \in Threads |-> NoObs]
    /\ committed = TRUE

JoinNext ==
    \E t \in Threads :
        \/ transcribe_n_segments(t)
        \/ transcribe_segment(t)
        \/ transcribe_finish(t)

SpecJoin == JoinInit /\ [][JoinNext]_vars

\* What the claim calls whitespace.
IsSpace(c) == c \in {" ", "\t", "\n", "\r"}

RECURSIVE StripLeft(_)
StripLeft(s) ==
    IF s # <<>> /\ IsSpace(Head(s)) THEN StripLeft(Tail(s)) ELSE s

RECURSIVE StripRight(_)
StripRight(s) ==
    IF s # <<>> /\ IsSpace(s[Len(s)]) THEN StripRight(SubSeq(s, 1, Len(s) - 1)) ELSE s

\* A segment with the whitespace at both ends removed (nothing for a segment
\* without text).
Trimmed(s) == IF s = NullText THEN <<>> ELSE StripRight(StripLeft(s))

\* The trimmed segments, in order, without those that are empty or the blank marker.
RECURSIVE KeptSegments(_)
KeptSegments(segments) ==
    IF segments = <<>> THEN <<>>
    ELSE LET x == Trimmed(Head(segments)) IN
         (IF x = <<>> \/ x = BLANK_AUDIO THEN <<>> ELSE <<x>>)
         \o KeptSegments(Tail(segments))

\* The pieces joined by exactly one space.
RECURSIVE JoinedBySpace(_)
JoinedBySpace(pieces) ==
    IF pieces = <<>> THEN <<>>
    ELSE IF Len(pieces) = 1 THEN pieces[1]
    ELSE pieces[1] \o <<" ">> \o JoinedBySpace(Tail(pieces))

\* The string the claim gives for an engine result.
ExpectedJoin(segments) == JoinedBySpace(KeptSegments(segments))

\* A transcribe / transcribeWithPrompt call that ran its segment loop to the
\* end and is returning.
JoinedAndReturning(t) ==
    /\ op[t] \in {"transcribe", "transcribeWithPrompt"}
    /\ pc[t] = "ret"
    /\ ret[t].at \in {"short", "text"}

\* C10 as stated: transcribe / transcribeWithPrompt return, for every engine
\* result, the trimmed segments joined in order by one space, the empty, the
\* whitespace-only and the "[BLANK_AUDIO]" ones dropped.
C10_JoinOriginal ==
    \A t \in Threads :
        JoinedAndReturning(t) =>
            ret[t].s = NewStringUTF(ExpectedJoin(ctx[g_whisper]))

\* C10 amended: transcribe / transcribeWithPrompt return that join whenever it
\* has at least 2 characters, and "" when it has fewer.
C10_Join ==
    \A t \in Threads :
        JoinedAndReturning(t) =>
            ret[t].s = IF Len(ExpectedJoin(ctx[g_whisper])) >= 2
                       THEN NewStringUTF(ExpectedJoin(ctx[g_whisper]))
                       ELSE ""

\* C10 witness: the engine result [" hello ", "", "[BLANK_AUDIO]", "world  "]
\* is returned as "hello world".
C10_Witness ==
    \E t \in Threads :
        /\ JoinedAndReturning(t)
        /\ ctx[g_whisper] = <<s_hello, <<>>, BLANK_AUDIO, s_world>>
        /\ ret[t].s = "hello world"

\* The trimmed segments, in order, without those that are empty: what the
\* Realtime profile keeps (the blank marker included).
RECURSIVE KeptSegmentsRealtime(_)
KeptSegmentsRealtime(segments) ==
    IF segments = <<>> THEN <<>>
    ELSE LET x == Trimmed(Head(segments)) IN
         (IF x = <<>> THEN <<>> ELSE <<x>>)
         \o KeptSegmentsRealtime(Tail(segments))

\* The joined result of a profile for an engine result.
JoinedResult(o, segments) ==
    IF o = "transcribeRealtime"
    THEN JoinedBySpace(KeptSegmentsRealtime(segments))
    ELSE ExpectedJoin(segments)

\* A transcribe call of any profile that ran its segment loop to the end and is
\* returning.
LoopedAndReturning(t) ==
    /\ op[t] \in TranscribeOps
    /\ pc[t] = "ret"
    /\ ret[t].at \in {"short", "text"}

\* C11: the minimum-length suppression belongs to transcribe and
\* transcribeWithPrompt only: when their joined result is empty or shorter than
\* 2 characters they return "" (not a sentinel), and otherwise the joined
\* result; transcribeRealtime returns its joined result as it is, a single
\* character included.
C11_MinLengthByProfile ==
    \A t \in Threads :
        LoopedAndReturning(t) =>
            LET joined == JoinedResult(op[t], ctx[g_whisper]) IN
            /\ joined = loc[t].transcription
            /\ ret[t].s \notin Sentinels
            /\ IF op[t] = "transcribeRealtime"
               THEN ret[t].s = NewStringUTF(joined)
               ELSE /\ Len(joined) < 2 => ret[t].s = ""
                    /\ Len(joined) >= 2 => ret[t].s = NewStringUTF(joined)

\* C11 witness: transcribeRealtime returns the single character "a" for the
\* engine result ["\ta\n"], which the other two profiles suppress.
C11_Witness ==
    \E t \in Threads :
        /\ LoopedAndReturning(t)
        /\ op[t] = "transcribeRealtime"
        /\ ctx[g_whisper] = <<s_a>>
        /\ ret[t].s = "a"

\* Thread t's call has called whisper_full.
CalledEngine(t) ==
    /\ op[t] \in TranscribeOps
    /\ \/ pc[t] \in {"n_segments", "segment"}
       \/ pc[t] = "ret" /\ ret[t].at \in {"status", "short", "text"}

\* C12 as stated: a transcribeWithPrompt that has called whisper_full handed it
\* the prompt text as initial_prompt when the prompt argument is a non-empty
\* text, and handed it the very wparams of transcribe when the prompt argument
\* is null or "".
C12_PromptOriginal ==
    \A t \in Threads :
        (op[t] = "transcribeWithPrompt" /\ CalledEngine(t)) =>
            /\ loc[t].prompt = "text" =>
                  loc[t].wparams.initial_prompt = "text"
            /\ loc[t].prompt \in {"null", "empty"} =>
                  loc[t].wparams = transcribe_wparams

\* C13: a transcribe call of any profile on a loaded session (loaded when the
\* call began, no loadModel or releaseModel under way then or since) is not
\* refused by either check, and when its sample array has length 0 it returns
\* "" from the length test: it never takes the mutex and never reaches an
\* engine call, and the step that reads the length changes nothing of the
\* session (handle, flag, live handles, engine results).
C13_ZeroLength ==
    /\ [][\A t \in Threads :
            (op[t] \in TranscribeOps /\ Stepped(t) /\ loc'[t].length = 0) =>
                UNCHANGED <<shared, g_whisper_mutex>>]_vars
    /\ [](\A t \in Threads :
            (op[t] \in TranscribeOps /\ obs[t].steady) =>
                /\ g_whisper_initialized /\ g_whisper \in live
                /\ pc[t] = "ret" => ret[t].s \notin Sentinels
                /\ loc[t].length = 0 =>
                      /\ pc[t] = "ret"
                      /\ ret[t] = JString("", "length")
                      /\ g_whisper_mutex # t)

\* C13 witness: on a loaded session a transcribe or transcribeWithPrompt in one
\* thread and a transcribeRealtime in another have both read length 0 and are
\* both returning "".
C13_Witness ==
    \E t, u \in Threads :
        /\ op[t] \in {"transcribe", "transcribeWithPrompt"}
        /\ op[u] = "transcribeRealtime"
        /\ obs[t].steady /\ obs[u].steady
        /\ loc[t].length = 0 /\ loc[u].length = 0
        /\ ret[t].s = "" /\ ret[u].s = ""
        /\ g_whisper_initialized /\ g_whisper \in live

\* C14 as stated: on the teardown paths of releaseModel and loadModel the flag
\* is cleared before whisper_free, so in no state is g_whisper a freed handle
\* while g_whisper_initialized is still true, and no whisper_free is about to
\* run with the flag set.
C14_FlagClearedBeforeFree ==
    /\ ~(g_whisper_initialized /\ g_whisper # nullptr /\ g_whisper \notin live)
    /\ \A t \in Threads :
          pc[t] \in {"load_free", "rel_free"} => ~g_whisper_initialized

\* C15 as stated: in every state, those inside the critical sections of
\* loadModel and releaseModel included, g_whisper_initialized is not true
\* while g_whisper is nullptr.
C15_FlagImpliesHandle ==
    g_whisper_initialized => g_whisper # nullptr

\* The labels whose step reads or writes g_whisper or g_whisper_initialized.
AccessPcs ==
    {"check_flag", "check_ptr", "recheck", "full", "n_segments", "segment",
     "load_test", "load_free", "load_null", "load_clear", "load_init",
     "load_check", "load_set",
     "rel_test", "rel_free", "rel_null", "rel_clear", "is_read"}

\* The labels whose step writes g_whisper.
HandleWritePcs == {"load_null", "load_init", "rel_null"}

\* C16 as stated: a thread about to read or write g_whisper or
\* g_whisper_initialized, in any entry point, holds g_whisper_mutex; and no
\* thread is about to read g_whisper while another is about to write it.
C16_AllAccessUnderMutex ==
    /\ \A t \in Threads : pc[t] \in AccessPcs => g_whisper_mutex = t
    /\ \A t, u \in Threads :
          (t # u /\ pc[u] \in HandleWritePcs) =>
              pc[t] \notin {"check_ptr", "recheck", "full", "n_segments",
                            "segment", "load_test", "load_free", "load_check",
                            "rel_test", "rel_free", "is_read"}

\* C17: whenever no thread holds g_whisper_mutex, g_whisper_initialized is
\* true exactly when g_whisper is not nullptr, and the live handles are
\* g_whisper alone (none when it is nullptr); and the value isModelLoaded
\* returns is true exactly when g_whisper is a live handle.
C17_QuiescentConsistency ==
    /\ g_whisper_mutex = NoThread =>
          /\ g_whisper_initialized <=> g_whisper # nullptr
          /\ live = (IF g_whisper # nullptr THEN {g_whisper} ELSE {})
    /\ \A t \in Threads :
          (op[t] = "isModelLoaded" /\ pc[t] = "ret") =>
              /\ ret[t].kind = "jboolean"
              /\ ret[t].b <=> (g_whisper # nullptr /\ live = {g_whisper})

\* C17 witness: after a reload the mutex is free, the second handle is
\* installed with the flag set, and an isModelLoaded is about to take the mutex.
C17_Witness ==
    \E t \in Threads :
        /\ g_whisper_mutex = NoThread
        /\ created >= 2
        /\ g_whisper = created /\ g_whisper_initialized
        /\ op[t] = "isModelLoaded" /\ pc[t] = "is_lock"

\* A transcribe call between its whisper_full and its last segment read.
InSegments(t) ==
    /\ op[t] \in TranscribeOps
    /\ pc[t] \in {"n_segments", "segment"}

\* The labels inside the critical sections of loadModel and releaseModel.
LoadReleasePcs ==
    {"load_test", "load_free", "load_null", "load_clear", "load_init",
     "load_check", "load_set", "rel_test", "rel_free", "rel_null", "rel_clear"}

\* C18: while a transcribe call (any profile) is between its whisper_full and
\* its last segment read, no step changes g_whisper, the live handles or the
\* engine results, no other thread is at an engine call or inside the critical
\* section of loadModel or releaseModel, and the context holds the segments
\* the call's own whisper_full produced; what the call has joined when its
\* loop is over is the join of exactly those segments.
C18_OwnSegments ==
    /\ [][(\E t \in Threads : InSegments(t)) =>
             UNCHANGED <<g_whisper, g_whisper_initialized, live, ctx>>]_vars
    /\ [](\A t \in Threads :
            InSegments(t) =>
                /\ g_whisper \in live
                /\ ctx[g_whisper] = loc[t].segments
                /\ \A u \in Threads \ {t} :
                      pc[u] \notin (EngineCallPcs \cup LoadReleasePcs))
    /\ [](\A t \in Threads :
            LoopedAndReturning(t) =>
                /\ ctx[g_whisper] = loc[t].segments
                /\ loc[t].transcription = JoinedResult(op[t], loc[t].segments))

\* C18 witness: a transcribe call has read the first of several segments of
\* its result while a loadModel, called meanwhile, waits for the mutex.
C18_Witness ==
    \E t, u \in Threads :
        /\ InSegments(t) /\ pc[t] = "segment"
        /\ loc[t].i >= 1 /\ loc[t].i < loc[t].n_segments
        /\ op[u] = "loadModel" /\ pc[u] = "load_lock"

\* C19: a loadModel that cannot obtain the path string returns JNI_FALSE from
\* the test of line 25: it never holds the mutex, it gets no further than that
\* test, and none of its steps changes g_whisper, g_whisper_initialized, the
\* live handles or the mutex, so a model loaded before stays loaded and is not
\* freed.
C19_NoPathNoEffect ==
    /\ [][\A t \in Threads :
            (op[t] = "loadModel" /\ loc[t].path = "nochars" /\ Stepped(t)) =>
                UNCHANGED <<shared, g_whisper_mutex>>]_vars
    /\ [](\A t \in Threads :
            (op[t] = "loadModel" /\ loc[t].path = "nochars") =>
                /\ pc[t] \in {"load_path", "ret"}
                /\ g_whisper_mutex # t
                /\ pc[t] = "ret" => ret[t] = JBool(FALSE, "nochars"))

\* C19 witness: a loadModel without a path string is returning JNI_FALSE while
\* the model loaded before is still installed, live and flagged, and nobody
\* holds the mutex.
C19_Witness ==
    \E t \in Threads :
        /\ op[t] = "loadModel" /\ loc[t].path = "nochars"
        /\ pc[t] = "ret" /\ ~ret[t].b
        /\ g_whisper # nullptr /\ g_whisper \in live /\ g_whisper_initialized
        /\ g_whisper_mutex = NoThread

(* ------------------------------ fair scheduling ------------------------ *)

\* A step of the call thread t is in.
Step(t) ==
    \/ loadModel(t)
    \/ transcribe(t)
    \/ releaseModel(t)
    \/ isModelLoaded(t)
    \/ Return(t)

\* The lock_guard constructors: the steps that wait for g_whisper_mutex.
LockStep(t) ==
    \/ loadModel_lock(t)
    \/ transcribe_lock(t)
    \/ releaseModel_lock(t)
    \/ isModelLoaded_lock(t)

\* Fair scheduling: a thread in a call that can step eventually steps (the
\* engine calls among its steps return), and a thread waiting for the mutex,
\* which becomes free again and again, eventually gets it.
Fairness ==
    \A t \in Threads : WF_vars(Step(t)) /\ SF_vars(LockStep(t))

SpecFair == Init /\ [][Next]_vars /\ Fairness

=============================================================================
